---- MODULE Spec2Model ----
(***************************************************************************)
(* Model of buying/src/Buy.tsx: the List component (selection, catalog     *)
(* load, Buy click with its precondition checks and request construction)  *)
(* and the buy() wrapper around the external buyToken execution process.   *)
(*                                                                         *)
(* Every event handler and every continuation after an await runs to       *)
(* completion before the next one starts (single JS thread), so each is    *)
(* one action.  Values read from the wagmi hooks (activeChain, account,    *)
(* isConnected, signer) may change between any two events, so they are     *)
(* inputs of the action that reads them.                                   *)
(*                                                                         *)
(* Spec is the component with one buyToken call pending at a time,         *)
(* OverlapSpec the same with calls overlapping, StreamSpec the execution   *)
(* process with longer step streams.                                       *)
(***************************************************************************)
EXTENDS Integers, Sequences, FiniteSets, Bags, TLC

VARIABLES
  progressText,      \* useState('')      Buy.tsx:61
  loading,           \* useState(false)   Buy.tsx:62
  errorText,         \* useState('')      Buy.tsx:63
  tokens,            \* useState([])      Buy.tsx:64
  contract,          \* useState('0x4d..') Buy.tsx:65
  selectedTokenIds,  \* useState([])      Buy.tsx:68
  fetches,           \* pending getTokens(contract) calls, Buy.tsx:109: the
                     \* bag of their arguments
  fetched,           \* the argument of the getTokens call whose answer was
                     \* passed to setTokens last, Absent before the first
  runs,              \* pending buyToken(...) calls, Buy.tsx:22
  toggled,           \* the ids whose checkbox was ticked an odd number of
                     \* times (handleOnChange calls, Buy.tsx:143)
  effect             \* what the last step did beyond the component state:
                     \* a Buy click with its alert, throw and buyToken call,
                     \* a ticked checkbox, a rejected handler, or the
                     \* messages of a buyToken call that just reported its
                     \* outcome

vars == <<progressText, loading, errorText, tokens, contract,
          selectedTokenIds, fetches, fetched, runs, toggled, effect>>

----------------------------------------------------------------------------
(* Bounds *)

MaxPending == 1     \* catalog fetches pending at once
MaxInFlight == 1    \* buyToken calls pending at once
MaxSteps == 1       \* in-progress messages held for the pending calls
MaxOverlap == 2     \* buyToken calls pending at once, where overlapping
                    \* calls are what is looked at
MaxStream == 2      \* in-progress messages held, where the step stream is
                    \* what is looked at

----------------------------------------------------------------------------
(* Values *)

Absent == "absent"                 \* undefined, where a string is expected
NoChain == 0                       \* activeChain?.id of an undefined activeChain
NoPrice == -1                      \* floorAskPrice undefined

RequiredChainId == 4

DefaultContract == "0x4d68e14cd7dec510c84326f54ee41f88e8fad59b"

Contracts == {DefaultContract, "0xC"}

Chains == {NoChain, 1, 4}          \* activeChain?.id
Accounts == {Absent, "0xB"}        \* account?.address
Signers == {Absent, "signer"}      \* useSigner().data

WrongNetworkAlert ==
  "You are connected to the wrong network. Please, switch to the Rinkeby Test Network."

NoTokensText == "There are no tokens available to purchase."

MissingSignerError == "Missing a signer"

ExecErrors == {"boom"}             \* error.message of the execution process

\* A Token as far as the component reads it (its contract field is only
\* displayed).
Token(id, price) == [tokenId |-> id, floorAskPrice |-> price]

\* What getTokens may answer.
Listings ==
  { <<>>,
    <<Token("1", 1), Token("2", 2), Token("3", NoPrice)>>,
    <<Token("2", 1), Token("3", 0)>> }

Step(status, message) == [status |-> status, message |-> message]

\* What the execution process may pass to setState.
\* isNull stands for an undefined steps argument.
Steps(list) == [isNull |-> FALSE, list |-> list]
NoSteps == [isNull |-> TRUE, list |-> <<>>]

StepLists ==
  { NoSteps,
    Steps(<<>>),
    Steps(<<Step("complete", "Approving")>>),
    Steps(<<Step("incomplete", "Approving"), Step("incomplete", "Confirming")>>),
    Steps(<<Step("complete", "Approving"), Step("incomplete", Absent)>>),
    Steps(<<Step("error", "Approving")>>) }

\* The same with a list whose current step is its second.
StreamLists ==
  StepLists \union
    { Steps(<<Step("complete", "Approving"), Step("incomplete", "Confirming")>>) }

NoEffect == [kind |-> "none"]

\* A buyToken call that has reported nothing yet.
NewRun == [relayed |-> <<>>, outcome |-> ""]

----------------------------------------------------------------------------
(* Pure helpers *)

Includes(s, x) == \E i \in 1..Len(s) : s[i] = x

\* Boolean(floorAskPrice): undefined and 0 are falsy.
HasPrice(v) == v # NoPrice /\ v # 0

\* tokens.filter(({ floorAskPrice }) => Boolean(floorAskPrice))
FilterTokens(ts) ==
  LET Priced(t) == HasPrice(t.floorAskPrice) IN SelectSeq(ts, Priced)

\* The filter keeping the ticked id instead of the others (=== for !==).
HandleOnChangeKeepsTicked(sel, tokenId) ==
  IF Includes(sel, tokenId)
  THEN LET Same(x) == tokenId = x IN SelectSeq(sel, Same)
  ELSE Append(sel, tokenId)

\* The id pushed whether or not it is selected already.
HandleOnChangeAlwaysPushes(sel, tokenId) == Append(sel, tokenId)

\* handleOnChange: the updated selectedTokenIds.
HandleOnChange(sel, tokenId) ==
  IF Includes(sel, tokenId)
  THEN LET Other(x) == tokenId # x IN SelectSeq(sel, Other)
  ELSE Append(sel, tokenId)

\* `${contract}:${tokenId}`
Encode(c, tokenId) == c \o ":" \o tokenId

\* Every selected id written to the same key, tokens[0].
BuildQuerySameKey(taker, sel, c) ==
  [taker |-> taker,
   tokens |-> [i \in 1..(IF sel = <<>> THEN 0 ELSE 1) |->
                 Encode(c, sel[Len(sel)])]]

\* The query object: taker plus tokens[index] for every selected id.
BuildQuery(taker, sel, c) ==
  [taker |-> taker, tokens |-> [i \in 1..Len(sel) |-> Encode(c, sel[i])]]

\* The last incomplete step instead of the first.
CurrentStepLast(list) ==
  LET Incomplete(st) == st.status = "incomplete"
      found == SelectSeq(list, Incomplete)
  IN IF found = <<>> THEN Step(Absent, Absent) ELSE found[Len(found)]

\* steps.find((step) => step.status === 'incomplete'); a step of status
\* Absent stands for undefined.
CurrentStep(list) ==
  LET Incomplete(st) == st.status = "incomplete"
      found == SelectSeq(list, Incomplete)
  IN IF found = <<>> THEN Step(Absent, Absent) ELSE Head(found)

\* The message setState relays, or Absent when it relays nothing.
StepMessage(steps) ==
  IF steps.isNull THEN Absent
  ELSE LET currentStep == CurrentStep(steps.list) IN
       IF currentStep.status = Absent THEN Absent
       ELSE IF currentStep.message = Absent THEN "" ELSE currentStep.message

ErrorMessage(err) == "Error: " \o err

IsTerminal(m) == m = "Success" \/ \E e \in ExecErrors : m = ErrorMessage(e)

\* activeChain && activeChain.id !== 4: an undefined chain passes.
ValidateChainIfPresent(activeChain, account, isConnected) ==
  IF activeChain # NoChain /\ activeChain # RequiredChainId THEN "WrongNetwork"
  ELSE IF account = Absent THEN "NoAccount"
  ELSE IF ~isConnected THEN "Connect"
  ELSE "Proceed"

\* The account check left out.
ValidateNoAccountCheck(activeChain, account, isConnected) ==
  IF activeChain # RequiredChainId THEN "WrongNetwork"
  ELSE IF ~isConnected THEN "Connect"
  ELSE "Proceed"

\* The account check placed before the network check.
ValidateAccountFirst(activeChain, account, isConnected) ==
  IF account = Absent THEN "NoAccount"
  ELSE IF activeChain # RequiredChainId THEN "WrongNetwork"
  ELSE IF ~isConnected THEN "Connect"
  ELSE "Proceed"

\* The checks of the Buy click before the request is built.
Validate(activeChain, account, isConnected) ==
  IF activeChain # RequiredChainId THEN "WrongNetwork"
  ELSE IF account = Absent THEN "NoAccount"
  ELSE IF ~isConnected THEN "Connect"
  ELSE "Proceed"

\* The signer check left out.
SignerCheckSkipped(signer) == "Invoke"

\* buy(): the signer check in front of buyToken.
SignerCheck(signer) == IF signer = Absent THEN "MissingSigner" ELSE "Invoke"

----------------------------------------------------------------------------
(* Initial state: the useState defaults, nothing pending. *)

Init ==
  /\ progressText = ""
  /\ loading = FALSE
  /\ errorText = ""
  /\ tokens = <<>>
  /\ contract = DefaultContract
  /\ selectedTokenIds = <<>>
  /\ fetches = EmptyBag
  /\ fetched = Absent
  /\ runs = EmptyBag
  /\ toggled = {}
  /\ effect = NoEffect

----------------------------------------------------------------------------
(* Component events *)

\* The contract text field, rendered only when isConnected.
SetContract(isConnected, c) ==
  /\ isConnected
  /\ contract' = c
  /\ effect' = NoEffect
  /\ UNCHANGED <<progressText, loading, errorText, tokens, selectedTokenIds,
                 fetches, fetched, runs, toggled>>

\* A checkbox of a rendered token row.
ToggleToken(isConnected, i) ==
  /\ isConnected
  /\ i \in 1..Len(tokens)
  /\ selectedTokenIds' = HandleOnChange(selectedTokenIds, tokens[i].tokenId)
  /\ toggled' = IF tokens[i].tokenId \in toggled
                THEN toggled \ {tokens[i].tokenId}
                ELSE toggled \union {tokens[i].tokenId}
  /\ effect' = [kind |-> "toggle", tokenId |-> tokens[i].tokenId,
                selected |-> Includes(selectedTokenIds, tokens[i].tokenId)]
  /\ UNCHANGED <<progressText, loading, errorText, tokens, contract,
                 fetches, fetched, runs>>

\* "Load tokens to buy" up to the await of getTokens(contract).
LoadClick(isConnected) ==
  /\ isConnected
  /\ errorText' = ""
  /\ loading' = TRUE
  /\ fetches' = fetches (+) SetToBag({contract})
  /\ effect' = NoEffect
  /\ UNCHANGED <<progressText, tokens, contract, selectedTokenIds, fetched,
                 runs, toggled>>

\* getTokens(c) resolved: the rest of the Load handler.
LoadResolve(c, listing) ==
  /\ BagIn(c, fetches)
  /\ listing \in Listings
  /\ LET filteredTokens == FilterTokens(listing) IN
       /\ loading' = FALSE
       /\ errorText' = IF Len(filteredTokens) = 0 THEN NoTokensText ELSE errorText
       /\ tokens' = filteredTokens
  /\ fetches' = fetches (-) SetToBag({c})
  /\ fetched' = c
  /\ effect' = NoEffect
  /\ UNCHANGED <<progressText, contract, selectedTokenIds, runs, toggled>>

\* getTokens(c) rejected: the Load handler ends with an unhandled rejection.
LoadReject(c) ==
  /\ BagIn(c, fetches)
  /\ fetches' = fetches (-) SetToBag({c})
  /\ effect' = [kind |-> "loadThrow"]
  /\ UNCHANGED <<progressText, loading, errorText, tokens, contract,
                 selectedTokenIds, fetched, runs, toggled>>

\* What a Buy click did: the hook values it read, the alert it showed, the
\* error its handler rejected with, and the queries it passed to buyToken.
Click(activeChain, account, signer, alert, thrown, calls) ==
  [kind |-> "click", activeChain |-> activeChain, account |-> account,
   signer |-> signer, alert |-> alert, thrown |-> thrown, calls |-> calls]

\* "Buy Tokens", rendered when isConnected and tokens.length > 0, disabled
\* while loading.  The handler runs synchronously into buy() and buyToken().
BuyClick(activeChain, account, isConnected, signer) ==
  /\ isConnected
  /\ Len(tokens) > 0
  /\ ~(~isConnected \/ loading)
  /\ LET verdict == Validate(activeChain, account, isConnected) IN
     CASE verdict = "WrongNetwork" ->
            /\ effect' = Click(activeChain, account, signer, WrongNetworkAlert, "", <<>>)
            /\ loading' = FALSE
            /\ UNCHANGED <<progressText, runs>>
       [] verdict = "NoAccount" ->
            /\ effect' = Click(activeChain, account, signer, "", "", <<>>)
            /\ loading' = FALSE
            /\ UNCHANGED <<progressText, runs>>
       [] verdict = "Proceed" ->
            /\ progressText' = ""
            /\ loading' = TRUE
            /\ IF SignerCheck(signer) = "MissingSigner"
               THEN /\ effect' = Click(activeChain, account, signer, "",
                                       MissingSignerError, <<>>)
                    /\ UNCHANGED runs
               ELSE /\ effect' = Click(activeChain, account, signer, "", "",
                                       <<BuildQuery(account, selectedTokenIds, contract)>>)
                    /\ runs' = runs (+) SetToBag({NewRun})
       [] OTHER -> FALSE   \* connector.connect(): excluded by isConnected above
  /\ UNCHANGED <<errorText, tokens, contract, selectedTokenIds, fetches,
                 fetched, toggled>>

----------------------------------------------------------------------------
(* The execution process calling back into buy(), and settling.            *)
(* runs is the bag of pending buyToken calls.  A call is held as the       *)
(* messages buy() has passed to progressCallback for it so far; once the   *)
(* process has reported its outcome the call is held as that outcome       *)
(* alone, and the full sequence is in effect at the step that reported it. *)
(* The process reports steps until it reports the outcome, resolves only   *)
(* after it reported an outcome, and may reject at any point before it     *)
(* reported success.                                                       *)

Reported(run) == run.outcome # ""

\* The in-progress messages held for the pending calls together.
RECURSIVE Held(_)
Held(rs) ==
  IF rs = {} THEN 0
  ELSE LET run == CHOOSE x \in rs : TRUE IN
       Len(run.relayed) * CopiesIn(run, runs) + Held(rs \ {run})

Replace(run, new) == (runs (-) SetToBag({run})) (+) SetToBag({new})

Settle(run) == runs (-) SetToBag({run})

\* setState: (steps) => ...
SetState(run, steps) ==
  /\ BagIn(run, runs)
  /\ ~Reported(run)
  /\ LET m == StepMessage(steps) IN
       IF m = Absent
       THEN UNCHANGED <<progressText, runs>>
       ELSE /\ progressText' = m
            /\ runs' = Replace(run, [run EXCEPT !.relayed = Append(@, m)])
  /\ effect' = NoEffect
  /\ UNCHANGED <<loading, errorText, tokens, contract, selectedTokenIds,
                 fetches, fetched, toggled>>

\* handleSuccess: () => progressCallback('Success')
HandleSuccess(run) ==
  /\ BagIn(run, runs)
  /\ ~Reported(run)
  /\ progressText' = "Success"
  /\ runs' = Replace(run, [relayed |-> <<>>, outcome |-> "Success"])
  /\ effect' = [kind |-> "reported", messages |-> Append(run.relayed, "Success")]
  /\ UNCHANGED <<loading, errorText, tokens, contract, selectedTokenIds,
                 fetches, fetched, toggled>>

\* handleError: (error) => progressCallback(`Error: ${error.message}`)
HandleError(run, err) ==
  /\ BagIn(run, runs)
  /\ ~Reported(run)
  /\ progressText' = ErrorMessage(err)
  /\ runs' = Replace(run, [relayed |-> <<>>, outcome |-> ErrorMessage(err)])
  /\ effect' = [kind |-> "reported",
                messages |-> Append(run.relayed, ErrorMessage(err))]
  /\ UNCHANGED <<loading, errorText, tokens, contract, selectedTokenIds,
                 fetches, fetched, toggled>>

\* buyToken resolved: buy() returns true and the click handler finishes.
BuyResolve(run) ==
  /\ BagIn(run, runs)
  /\ Reported(run)
  /\ loading' = FALSE
  /\ runs' = Settle(run)
  /\ effect' = NoEffect
  /\ UNCHANGED <<progressText, errorText, tokens, contract, selectedTokenIds,
                 fetches, fetched, toggled>>

\* buyToken rejected: buy() logs and rethrows, the click handler rejects.
BuyReject(run, err) ==
  /\ BagIn(run, runs)
  /\ run.outcome # "Success"
  /\ runs' = Settle(run)
  /\ effect' = [kind |-> "throw", error |-> err, run |-> run]
  /\ UNCHANGED <<progressText, loading, errorText, tokens, contract,
                 selectedTokenIds, fetches, fetched, toggled>>

----------------------------------------------------------------------------

\* One step of the component or of the execution process, with at most
\* pending getTokens calls and inFlight buyToken calls pending at once and
\* the pending buyToken calls holding at most held in-progress messages.
NextWithin(pending, inFlight, held) ==
  \/ \E ic \in BOOLEAN, c \in Contracts : SetContract(ic, c)
  \/ \E ic \in BOOLEAN, i \in 1..Len(tokens) : ToggleToken(ic, i)
  \/ /\ BagCardinality(fetches) < pending
     /\ \E ic \in BOOLEAN : LoadClick(ic)
  \/ \E c \in BagToSet(fetches), l \in Listings : LoadResolve(c, l)
  \/ \E c \in BagToSet(fetches) : LoadReject(c)
  \/ /\ BagCardinality(runs) < inFlight
     /\ \E ch \in Chains, a \in Accounts, ic \in BOOLEAN, s \in Signers :
          BuyClick(ch, a, ic, s)
  \/ /\ Held(BagToSet(runs)) < held
     /\ \E run \in BagToSet(runs), steps \in StepLists : SetState(run, steps)
  \/ \E run \in BagToSet(runs) : HandleSuccess(run)
  \/ \E run \in BagToSet(runs), e \in ExecErrors : HandleError(run, e)
  \/ \E run \in BagToSet(runs) : BuyResolve(run)
  \/ \E run \in BagToSet(runs), e \in ExecErrors : BuyReject(run, e)

Next == NextWithin(MaxPending, MaxInFlight, MaxSteps)

Spec == Init /\ [][Next]_vars

\* The same with buyToken calls overlapping.
OverlapNext == NextWithin(MaxPending, MaxOverlap, MaxSteps)

OverlapSpec == Init /\ [][OverlapNext]_vars

\* The execution process at work with longer step streams and overlapping
\* calls, the component otherwise left alone: the contract field is not
\* edited, no checkbox is ticked and getTokens does not fail.
StreamNext ==
  \/ /\ BagCardinality(fetches) < MaxPending
     /\ \E ic \in BOOLEAN : LoadClick(ic)
  \/ \E c \in BagToSet(fetches), l \in Listings : LoadResolve(c, l)
  \/ /\ BagCardinality(runs) < MaxOverlap
     /\ \E ch \in Chains, a \in Accounts, ic \in BOOLEAN, s \in Signers :
          BuyClick(ch, a, ic, s)
  \/ /\ Held(BagToSet(runs)) < MaxStream
     /\ \E run \in BagToSet(runs), steps \in StreamLists : SetState(run, steps)
  \/ \E run \in BagToSet(runs) : HandleSuccess(run)
  \/ \E run \in BagToSet(runs), e \in ExecErrors : HandleError(run, e)
  \/ \E run \in BagToSet(runs) : BuyResolve(run)
  \/ \E run \in BagToSet(runs), e \in ExecErrors : BuyReject(run, e)

StreamSpec == Init /\ [][StreamNext]_vars

----------------
(* Properties *)

Clicked == effect.kind = "click"

\* How a Buy click ended.
WrongNetwork(e) == e.alert = WrongNetworkAlert /\ e.thrown = "" /\ e.calls = <<>>
NoAccount(e) == e.alert = "" /\ e.thrown = "" /\ e.calls = <<>>
MissingSigner(e) == e.alert = "" /\ e.thrown = MissingSignerError /\ e.calls = <<>>
Invoked(e) == e.alert = "" /\ e.thrown = "" /\ Len(e.calls) = 1

\* zero or more in-progress messages, then exactly one terminal message
OneTerminalLast(ms) ==
  /\ Len(ms) > 0
  /\ IsTerminal(ms[Len(ms)])
  /\ \A i \in 1..(Len(ms) - 1) : ~IsTerminal(ms[i])

\* C1 (as claimed): every buyToken call relays zero or more in-progress
\* messages followed by exactly one terminal message: a call that reports
\* its outcome has relayed only in-progress messages before it, and no call
\* settles without having reported an outcome.
C1_OneTerminalPerSubmission ==
  /\ effect.kind = "reported" => OneTerminalLast(effect.messages)
  /\ effect.kind = "throw" => Reported(effect.run)

\* C2 (as claimed): when buyToken rejects before anything was relayed, buy()
\* emits "Error: <message>" to the progress callback, so the progress text
\* shows that error.
C2_ImmediateThrowReported ==
  (effect.kind = "throw" /\ effect.run = NewRun)
    => progressText = ErrorMessage(effect.error)

\* C3 (as claimed): at most one buyToken call is pending at any time.
C3_OneSubmissionInFlight == BagCardinality(runs) <= 1

\* C4 (as claimed): every step that ends a submit attempt (a click that does
\* not reach buyToken, buyToken resolving, buyToken rejecting) leaves
\* loading false.
C4_LoadingResetOnEveryEnd ==
  [][ ( \/ effect'.kind = "click" /\ effect'.calls = <<>>
        \/ effect'.kind = "throw"
        \/ \E run \in BagToSet(runs) : BuyResolve(run) )
      => loading' = FALSE ]_vars

\* C5 (as claimed): a Buy click with an empty selection never calls buyToken.
C5_EmptySelectionRejected ==
  (Clicked /\ selectedTokenIds = <<>>) => effect.calls = <<>>

\* C6: a Buy click on any chain other than 4, an absent chain included,
\* shows the network-switch alert, calls buyToken never and leaves the
\* selection, the tokens and the progress text as they were.
C6_WrongNetworkAborts ==
  [][ (effect'.kind = "click" /\ effect'.activeChain # RequiredChainId)
      => /\ WrongNetwork(effect')
         /\ UNCHANGED <<runs, selectedTokenIds, tokens, progressText>> ]_vars

C6_Witness ==
  /\ Clicked /\ effect.activeChain = NoChain /\ WrongNetwork(effect)
  /\ progressText = "Success"
  /\ Len(selectedTokenIds) = 2

\* C7: a Buy click on chain 4 without an account address ends silently: no
\* alert, no throw, no buyToken call, nothing relayed to the progress
\* callback, and loading false.
C7_NoAccountSilent ==
  [][ (effect'.kind = "click" /\ effect'.activeChain = RequiredChainId
         /\ effect'.account = Absent)
      => /\ NoAccount(effect')
         /\ loading' = FALSE
         /\ UNCHANGED <<runs, progressText>> ]_vars

C7_Witness ==
  /\ Clicked /\ effect.activeChain = RequiredChainId /\ effect.account = Absent
  /\ NoAccount(effect)
  /\ ~loading
  /\ progressText = ErrorMessage("boom")

\* C8: a Buy click on chain 4 with an account address and no signer throws
\* 'Missing a signer'; buyToken is not called and nothing is relayed to the
\* progress callback (the progress text is only reset).
C8_MissingSignerThrows ==
  [][ (effect'.kind = "click" /\ effect'.activeChain = RequiredChainId
         /\ effect'.account # Absent /\ effect'.signer = Absent)
      => /\ MissingSigner(effect')
         /\ UNCHANGED runs
         /\ progressText' = "" ]_vars

C8_Witness ==
  /\ Clicked /\ effect.activeChain = RequiredChainId
  /\ effect.account # Absent /\ effect.signer = Absent
  /\ MissingSigner(effect)
  /\ Len(selectedTokenIds) > 0

\* C9: a Buy click ends as the first failing check of network, account,
\* signer says, whatever the later checks would have said.
C9_FirstFailingCheck ==
  Clicked =>
    IF effect.activeChain # RequiredChainId THEN WrongNetwork(effect)
    ELSE IF effect.account = Absent THEN NoAccount(effect)
    ELSE IF effect.signer = Absent THEN MissingSigner(effect)
    ELSE Invoked(effect)

C9_Witness ==
  /\ Clicked /\ effect.activeChain = 1 /\ effect.account = Absent
  /\ effect.signer = Absent
  /\ WrongNetwork(effect)

\* C10 (as claimed): when a catalog fetch completes and replaces the tokens,
\* the selection is empty afterwards.
C10_SelectionClearedOnLoad ==
  [][ (\E c \in Contracts, l \in Listings : LoadResolve(c, l))
      => selectedTokenIds' = <<>> ]_vars

\* The ids of the rows on display: the priced items of the most recent
\* completed catalog fetch.
DisplayedIds == { tokens[j].tokenId : j \in 1..Len(tokens) }

SelectedIds == { selectedTokenIds[i] : i \in 1..Len(selectedTokenIds) }

\* C11 (as claimed): whenever a Buy click passes a query to buyToken, every
\* id of the selection it was built from is the id of a priced item of the
\* most recent catalog fetch result.
C11_NoStaleIdSubmitted ==
  (Clicked /\ Invoked(effect)) => SelectedIds \subseteq DisplayedIds

\* C12 (as claimed): when getTokens rejects, an error text is on display,
\* the selection is empty and loading is false.
C12_FetchFailureSurfaced ==
  effect.kind = "loadThrow"
    => /\ errorText # ""
       /\ selectedTokenIds = <<>>
       /\ ~loading

\* The positions of the incomplete steps of a notification.
IncompleteAt(steps) ==
  IF steps.isNull THEN {}
  ELSE { i \in 1..Len(steps.list) : steps.list[i].status = "incomplete" }

\* The message of the current step of a notification: of its first
\* incomplete step, the empty text when that step carries none.
CurrentMessage(steps) ==
  LET first == CHOOSE i \in IncompleteAt(steps) :
                 \A j \in IncompleteAt(steps) : i <= j
      message == steps.list[first].message
  IN IF message = Absent THEN "" ELSE message

\* C13: every notification that carries an incomplete step is relayed at
\* once, as the message of its current step, after the messages relayed for
\* that call before; and when the call reports success the progress
\* callback has received exactly those messages, in that order, followed by
\* 'Success'.
C13_StreamRelayedInOrder ==
  [][ \A run \in BagToSet(runs) :
        /\ \A steps \in StreamLists :
             (SetState(run, steps) /\ IncompleteAt(steps) # {})
               => /\ progressText' = CurrentMessage(steps)
                  /\ BagIn([run EXCEPT
                              !.relayed = Append(@, CurrentMessage(steps))],
                           runs')
        /\ HandleSuccess(run)
             => /\ progressText' = "Success"
                /\ effect'.messages = Append(run.relayed, "Success") ]_vars

C13_Witness ==
  /\ effect.kind = "reported"
  /\ effect.messages = <<"Approving", "Confirming", "Success">>
  /\ progressText = "Success"

\* C14: after any sequence of checkbox ticks, an id is in the selection
\* exactly when it was ticked an odd number of times (the selection starts
\* empty); so an even number of ticks of an id leaves its membership as it
\* was, an odd number flips it, and ticks of other ids do not change it.
C14_ToggleParity == SelectedIds = toggled

C14_Witness ==
  /\ effect.kind = "toggle" /\ effect.tokenId = "1" /\ effect.selected
  /\ selectedTokenIds = <<"2">>
  /\ toggled = {"2"}

\* C15: no id occurs twice in the selection.
C15_NoDuplicateIds ==
  \A i, j \in 1..Len(selectedTokenIds) :
    i # j => selectedTokenIds[i] # selectedTokenIds[j]

C15_Witness ==
  /\ effect.kind = "toggle" /\ effect.selected
  /\ Len(selectedTokenIds) = 1
  /\ ~Includes(selectedTokenIds, effect.tokenId)

\* The entries of the tokens[index] keys of a query.
Entries(query) == { query.tokens[i] : i \in DOMAIN query.tokens }

\* C16: the query a Buy click passes to buyToken has the account address as
\* taker and, under its tokens[index] keys, exactly the strings
\* "<contract>:<id>" of the selected ids, one entry per selected id.
C16_RequestEncodesSelection ==
  (Clicked /\ Invoked(effect)) =>
    LET query == effect.calls[1] IN
      /\ query.taker = effect.account
      /\ Entries(query) = { contract \o ":" \o id : id \in SelectedIds }
      /\ Len(query.tokens) = Cardinality(SelectedIds)

C16_Witness ==
  /\ Clicked /\ Invoked(effect)
  /\ contract = "0xC"
  /\ selectedTokenIds = <<"2", "1">>
  /\ Entries(effect.calls[1]) = {"0xC:1", "0xC:2"}

\* C17 (as claimed): a completed catalog load leaves on display exactly the
\* fetched items that have a price, and a Buy click that passes a query to
\* buyToken with every displayed item ticked passes exactly the strings
\* "<contract>:<id>" of the displayed items.
C17_PricedItemsEndToEnd ==
  [][ /\ \A c \in Contracts, l \in Listings :
           LoadResolve(c, l) => tokens' = FilterTokens(l)
      /\ (effect'.kind = "click" /\ Invoked(effect')
            /\ DisplayedIds \subseteq SelectedIds)
           => Entries(effect'.calls[1])
                = { contract \o ":" \o id : id \in DisplayedIds } ]_vars

\* C18 (as claimed): after every Buy click, whether it went on to buyToken
\* or was aborted by the network or the account check, the progress text
\* is empty.
C18_ProgressResetOnEveryClick == Clicked => progressText = ""

\* C19 (as claimed): loading is true whenever a buyToken call or a
\* getTokens call is pending.
C19_LoadingWhilePending ==
  (runs # EmptyBag \/ fetches # EmptyBag) => loading

\* C20 (as claimed): the strings of the query a Buy click passes to buyToken
\* carry the contract address that was passed to the getTokens call whose
\* answer is on display.
C20_PrefixIsFetchedContract ==
  (Clicked /\ Invoked(effect))
    => Entries(effect.calls[1]) = { fetched \o ":" \o id : id \in SelectedIds }

====
